---- MODULE Spec2Model ----
(***************************************************************************)
(* Turn-taking and streaming-audio orchestration of the voice client       *)
(* (src/frontend/app.js): websocket session, voice mode, capture gate,     *)
(* playback queue and interrupt.                                           *)
(*                                                                         *)
(* One action is one task of the browser's event loop: a handler or the    *)
(* continuation of an async function after an await.  An async function    *)
(* suspended at `await initAudioContext()` is an entry of ctxWaiters       *)
(* (resumed in call order); a processAudioQueue loop suspended at the      *)
(* `onended` promise of a started source is an element of rendering.       *)
(* Every await is a task boundary: initAudioContext() may have to resume a *)
(* suspended context, so other tasks can run before the continuation.      *)
(* Clicks are guarded by the handlers' own conditions only.                *)
(***************************************************************************)
EXTENDS Integers, Sequences, FiniteSets, TLC

\* ---------------------------------------------------------------- bounds
MaxChunks  == 3   \* audio chunks handed to playAudio over a run
MaxSockets == 2   \* websockets created over a run
MaxLive    == 2   \* microphone streams requested or held at once
MaxWire    == 2   \* calls of sendWebSocketMessage kept in the send history
NativeSteps == 2  \* native sample values told apart within one 16-bit step
MaxNative  == 2   \* largest magnitude of a native sample, in full scales

Sockets == 1..MaxSockets
Chunks  == 1..MaxChunks

VARIABLES
    sock,                 \* readyState of every WebSocket object created
    websocket,            \* state.websocket (0 = null)
    isConnected,          \* state.isConnected
    isConversationActive, \* state.isConversationActive
    isRecording,          \* state.isRecording
    isVoiceModeActive,
    isListening,
    isAgentSpeaking,
    audioQueue,           \* decoded buffers, by arrival number of their chunk
    isProcessingAudio,
    pendingAgentDone,
    ctxWaiters,           \* coroutines suspended at await initAudioContext()
    rendering,            \* started sources whose onended has not fired
    micPending,           \* getUserMedia promises not yet settled
    mediaStream,          \* mediaStream # null
    audioProcessor,       \* audioProcessor # null
    liveStreams,          \* microphone streams acquired and not stopped
    liveProcs,            \* script processors connected, with their callback
    nextChunk,            \* audio chunks handed to playAudio so far
    wire,                 \* tags the last task has written to the socket
    toasts,               \* notifications the last task has shown (showToast)
    task,                 \* the task the event loop ran last
    orphaned,             \* sources that were rendering when the queue was
                          \* cleared and have not ended since
    agentDone,            \* history: agent_done was received and the user has
                          \* not opened a new exchange since
    logging,              \* whether this behaviour keeps the send history
    calls,                \* history: the first calls of sendWebSocketMessage
    sent,                 \* history: what those calls put on the socket
    tracking,             \* whether this behaviour keeps the histories below
    cutoff,               \* history: the chunks received when the last
                          \* interrupt was processed
    fromListening,        \* history: the agent turn in progress was opened by
                          \* agent_speaking or audio_output with capture on
    guarded,              \* history: the chunks accepted in such a turn
    stage,                \* codec: which conversion the sample has been through
    pcm16,                \* codec: a 16-bit sample of the wire format
    float32,              \* codec: a native sample x, held as the integer
                          \* x * 32768 * NativeSteps
    encoded               \* codec: the 16-bit sample the encoder stored

vars == <<sock, websocket, isConnected, isConversationActive, isRecording,
          isVoiceModeActive, isListening, isAgentSpeaking, audioQueue,
          isProcessingAudio, pendingAgentDone, ctxWaiters, rendering,
          micPending, mediaStream, audioProcessor, liveStreams, liveProcs,
          nextChunk, wire, toasts, task, orphaned, agentDone, logging,
          calls, sent, tracking, cutoff, fromListening, guarded,
          stage, pcm16, float32, encoded>>

codecVars == <<stage, pcm16, float32, encoded>>

connVars == <<sock, websocket, isConnected, isConversationActive>>
micVars  == <<micPending, mediaStream, audioProcessor, liveStreams,
              liveProcs, isRecording>>
turnVars == <<isVoiceModeActive, isListening, isAgentSpeaking, audioQueue,
              isProcessingAudio, pendingAgentDone>>
playVars == <<ctxWaiters, rendering, nextChunk>>

\* ------------------------------------------------------ the turn flags
\* The part of the state the turn-taking handlers read and write, as one
\* record, so that a handler is a function from record to record.  A task
\* starts with nothing written (wire = <<>>) and nothing shown
\* (toasts = <<>>).
Turn ==
    [isVoiceModeActive |-> isVoiceModeActive,
     isListening       |-> isListening,
     isAgentSpeaking   |-> isAgentSpeaking,
     audioQueue        |-> audioQueue,
     isProcessingAudio |-> isProcessingAudio,
     pendingAgentDone  |-> pendingAgentDone,
     wire              |-> <<>>,
     toasts            |-> <<>>,
     calls             |-> calls,
     sent              |-> sent]

SetTurn(t) ==
    /\ isVoiceModeActive' = t.isVoiceModeActive
    /\ isListening'       = t.isListening
    /\ isAgentSpeaking'   = t.isAgentSpeaking
    /\ audioQueue'        = t.audioQueue
    /\ isProcessingAudio' = t.isProcessingAudio
    /\ pendingAgentDone'  = t.pendingAgentDone
    /\ wire'              = t.wire
    /\ toasts'            = t.toasts
    /\ calls'             = t.calls
    /\ sent'              = t.sent

\* A task that writes nothing to the socket.
NoSend == wire' = <<>> /\ UNCHANGED <<calls, sent>>

\* showToast(message, type) by the task that runs.
showToast(t, message) == [t EXCEPT !.toasts = Append(t.toasts, message)]

\* The agent's turn stands declared done from an agent_done until a new
\* exchange opens: the user's utterance is transcribed, the user types,
\* interrupts or starts voice mode again, or the server announces a reply
\* (agent_speaking, partial_transcript).
DoneHistory ==
    agentDone' = CASE task' = "agent_done" -> TRUE
                   [] task' \in {"user_transcript", "send_chat", "interrupt",
                                 "resume_voice", "agent_speaking",
                                 "partial_transcript"} -> FALSE
                   [] OTHER -> agentDone

\* Whether the agent turn was opened from LISTENING with capture enabled:
\* decided by the message that finds isAgentSpeaking false, kept while
\* isAgentSpeaking stays true.
TurnHistory ==
    fromListening' =
        CASE ~tracking \/ isAgentSpeaking -> fromListening
          [] task' \in {"agent_speaking", "audio_output"} ->
                 isVoiceModeActive /\ isListening
          [] task' = "partial_transcript" -> FALSE
          [] OTHER -> fromListening

\* The task that runs, by name, and the histories every task keeps.
Hist(name) ==
    /\ task' = name
    /\ UNCHANGED <<logging, tracking, codecVars>>
    /\ DoneHistory
    /\ TurnHistory

\* The task that runs, by name; only the interrupt and onended tasks change
\* which started sources belong to a cleared queue.
Ran(name) ==
    /\ Hist(name)
    /\ UNCHANGED <<orphaned, cutoff, guarded>>

\* ------------------------------------------------------------ transport
SocketOpen == websocket # 0 /\ sock[websocket] = "open"

\* A call of sendWebSocketMessage: its tag, whether the socket was open, and
\* whether the socket was still connecting.
Call(type, open) ==
    [type |-> type, open |-> open,
     connecting |-> websocket # 0 /\ sock[websocket] = "connecting"]

\* sendWebSocketMessage letting an interrupt overtake what was sent before.
sendWebSocketMessage_InterruptFirst(t, type) ==
    LET keep == logging /\ Len(t.calls) < MaxWire
        c == IF keep
             THEN [t EXCEPT !.calls = Append(t.calls, Call(type, SocketOpen))]
             ELSE t
    IN  IF SocketOpen
        THEN [c EXCEPT !.wire = Append(c.wire, type),
                       !.sent = IF ~keep THEN c.sent
                                ELSE IF type = "interrupt"
                                     THEN <<type>> \o c.sent
                                     ELSE Append(c.sent, type)]
        ELSE c

\* sendWebSocketMessage(type, data): written only to an open socket, by
\* websocket.send() before the call returns.  The history keeps the first
\* MaxWire calls.
sendWebSocketMessage(t, type) ==
    LET keep == logging /\ Len(t.calls) < MaxWire
        c == IF keep
             THEN [t EXCEPT !.calls = Append(t.calls, Call(type, SocketOpen))]
             ELSE t
    IN  IF SocketOpen
        THEN [c EXCEPT !.wire = Append(c.wire, type),
                       !.sent = IF keep THEN Append(c.sent, type) ELSE c.sent]
        ELSE c

\* --------------------------------------------------------- capture gate
pauseListening(t) == [t EXCEPT !.isListening = FALSE]

resumeListening(t) ==
    IF t.isVoiceModeActive THEN [t EXCEPT !.isListening = TRUE] ELSE t

\* ------------------------------------------------------------ playback
\* clearAudioQueue leaving the pending hand-over set.
clearAudioQueue_KeepsPending(t) ==
    [t EXCEPT !.audioQueue = <<>>,
              !.isProcessingAudio = FALSE]

clearAudioQueue(t) ==
    [t EXCEPT !.audioQueue = <<>>,
              !.isProcessingAudio = FALSE,
              !.pendingAgentDone = FALSE]

\* The end of processAudioQueue handling the pending agent_done only while
\* voice mode is active.
afterLoop_OnlyInVoiceMode(t) ==
    LET u == [t EXCEPT !.isProcessingAudio = FALSE] IN
    IF u.pendingAgentDone /\ u.isVoiceModeActive
    THEN resumeListening([u EXCEPT !.pendingAgentDone = FALSE,
                                   !.isAgentSpeaking = FALSE])
    ELSE u

\* After the while loop of processAudioQueue: the queue has drained.
afterLoop(t) ==
    LET u == [t EXCEPT !.isProcessingAudio = FALSE] IN
    IF u.pendingAgentDone
    THEN resumeListening([u EXCEPT !.pendingAgentDone = FALSE,
                                   !.isAgentSpeaking = FALSE])
    ELSE u

\* The loop of processAudioQueue taking the newest buffer (pop) instead of
\* the oldest (shift).
LoopContinue_TakesNewest(ended) ==
    IF audioQueue # <<>>
    THEN /\ rendering' = (rendering \ ended)
                             \cup {audioQueue[Len(audioQueue)]}
         /\ SetTurn([Turn EXCEPT !.audioQueue =
                         SubSeq(audioQueue, 1, Len(audioQueue) - 1)])
    ELSE /\ rendering' = rendering \ ended
         /\ SetTurn(afterLoop(Turn))

\* The loop of processAudioQueue at its condition, entered for the first
\* time (ended = {}) or resumed by the onended of the source of `ended`:
\* start the head of the queue and wait for it, or leave the loop.
LoopContinue(ended) ==
    IF audioQueue # <<>>
    THEN /\ rendering' = (rendering \ ended) \cup {Head(audioQueue)}
         /\ SetTurn([Turn EXCEPT !.audioQueue = Tail(audioQueue)])
    ELSE /\ rendering' = rendering \ ended
         /\ SetTurn(afterLoop(Turn))

Waiter(kind, chunk, ok) == [kind |-> kind, chunk |-> chunk, ok |-> ok]

\* ------------------------------------------------------ message handlers
handlePartialTranscript(t, role) ==
    IF role = "assistant" /\ t.isVoiceModeActive
    THEN pauseListening([t EXCEPT !.isAgentSpeaking = TRUE])
    ELSE t

handleUserTranscript(t) ==
    IF t.isVoiceModeActive THEN pauseListening(t) ELSE t

\* handleAudioOutput up to the call of playAudio.
handleAudioOutput(t) ==
    IF ~t.isAgentSpeaking
    THEN pauseListening([t EXCEPT !.isAgentSpeaking = TRUE,
                                  !.pendingAgentDone = FALSE])
    ELSE t

handleAgentSpeaking(t) ==
    LET u == [t EXCEPT !.isAgentSpeaking = TRUE] IN
    IF u.isVoiceModeActive THEN pauseListening(u) ELSE u

\* handleAgentDone clearing the speaking flag without resuming capture.
handleAgentDone_NoResume(t) ==
    IF Len(t.audioQueue) > 0 \/ t.isProcessingAudio
    THEN [t EXCEPT !.pendingAgentDone = TRUE]
    ELSE [t EXCEPT !.isAgentSpeaking = FALSE]

handleAgentDone(t) ==
    IF Len(t.audioQueue) > 0 \/ t.isProcessingAudio
    THEN [t EXCEPT !.pendingAgentDone = TRUE]
    ELSE resumeListening([t EXCEPT !.isAgentSpeaking = FALSE])

\* The interrupt handler returning early only when voice mode is off.
interruptClick_NoSpeakingGuard(t) ==
    IF ~t.isVoiceModeActive
    THEN t
    ELSE showToast(resumeListening(
             [clearAudioQueue(sendWebSocketMessage(t, "interrupt"))
                 EXCEPT !.isAgentSpeaking = FALSE]), "interrupted")

\* The interrupt button's click handler.
interruptClick(t) ==
    IF ~t.isVoiceModeActive \/ ~t.isAgentSpeaking
    THEN t
    ELSE showToast(resumeListening(
             [clearAudioQueue(sendWebSocketMessage(t, "interrupt"))
                 EXCEPT !.isAgentSpeaking = FALSE]), "interrupted")

\* ------------------------------------------------------- voice mode, UI
\* Releasing the capture processor and the microphone stream.
ReleaseMic ==
    /\ audioProcessor' = FALSE
    /\ liveProcs' = IF audioProcessor THEN liveProcs - 1 ELSE liveProcs
    /\ mediaStream' = FALSE
    /\ liveStreams' = IF mediaStream THEN liveStreams - 1 ELSE liveStreams

stopVoiceMode ==
    /\ isVoiceModeActive' = FALSE
    /\ isListening' = FALSE
    /\ isRecording' = FALSE
    /\ ReleaseMic

\* resetUIState turning voice mode off without clearing isListening.
resetUIState_KeepsListening ==
    IF isRecording \/ isVoiceModeActive
    THEN /\ isVoiceModeActive' = FALSE
         /\ isListening' = isListening
         /\ isRecording' = FALSE
         /\ ReleaseMic
    ELSE UNCHANGED <<isVoiceModeActive, isListening, isRecording,
                     audioProcessor, liveProcs, mediaStream, liveStreams>>

resetUIState ==
    IF isRecording \/ isVoiceModeActive
    THEN /\ isVoiceModeActive' = FALSE
         /\ isListening' = FALSE
         /\ isRecording' = FALSE
         /\ ReleaseMic
    ELSE UNCHANGED <<isVoiceModeActive, isListening, isRecording,
                     audioProcessor, liveProcs, mediaStream, liveStreams>>

Constructed ==
    /\ sock = [s \in Sockets |-> "unused"]
    /\ websocket = 0
    /\ isConnected = FALSE
    /\ isConversationActive = FALSE
    /\ isRecording = FALSE
    /\ isVoiceModeActive = FALSE
    /\ isListening = FALSE
    /\ isAgentSpeaking = FALSE
    /\ audioQueue = <<>>
    /\ isProcessingAudio = FALSE
    /\ pendingAgentDone = FALSE
    /\ ctxWaiters = <<>>
    /\ rendering = {}
    /\ micPending = 0
    /\ mediaStream = FALSE
    /\ audioProcessor = FALSE
    /\ liveStreams = 0
    /\ liveProcs = 0
    /\ nextChunk = 0
    /\ wire = <<>>
    /\ toasts = <<>>
    /\ task = "init"
    /\ orphaned = {}
    /\ agentDone = FALSE
    /\ calls = <<>>
    /\ sent = <<>>
    /\ cutoff = 0
    /\ fromListening = FALSE
    /\ guarded = {}

\* No sample is being converted.
NoSample == stage = "idle" /\ pcm16 = 0 /\ float32 = 0 /\ encoded = 0

Init == Constructed /\ logging = FALSE /\ tracking = FALSE /\ NoSample

\* The same construction, in a behaviour that keeps the send history.
InitWire == Constructed /\ logging = TRUE /\ tracking = FALSE /\ NoSample

\* The same construction, in a behaviour that keeps the interrupt and turn
\* histories.
InitCut == Constructed /\ logging = FALSE /\ tracking = TRUE /\ NoSample

\* ------------------------------------------------------------- session
\* Start button: connectWebSocket().
StartBtnClick ==
    /\ Ran("start_click")
    /\ ~SocketOpen
    /\ \E s \in Sockets :
          /\ sock[s] = "unused"
          /\ \A r \in Sockets : r < s => sock[r] # "unused"
          /\ sock' = [sock EXCEPT ![s] = "connecting"]
          /\ websocket' = s
    /\ NoSend
    /\ toasts' = <<>>
    /\ UNCHANGED <<isConnected, isConversationActive, micVars, turnVars,
                   playVars>>

\* onopen of a socket: handleWebSocketOpen.
WsOpen(s) ==
    /\ Ran("ws_open")
    /\ sock[s] = "connecting"
    /\ sock' = [sock EXCEPT ![s] = "open"]
    /\ isConnected' = TRUE
    /\ NoSend
    /\ toasts' = <<"connected">>
    /\ UNCHANGED <<websocket, isConversationActive, micVars, turnVars,
                   playVars>>

\* The close code of a close event: 1000 or any other.
CloseCodes == {"normal", "abnormal"}

\* handleWebSocketClose(event) for socket s, in a task that has already
\* shown the notifications of `shown`.
handleWebSocketClose(s, code, shown) ==
    /\ sock' = [sock EXCEPT ![s] = IF code = "normal" THEN "closed"
                                                      ELSE "lost"]
    /\ isConnected' = FALSE
    /\ isConversationActive' = FALSE
    /\ toasts' = IF code # "normal" THEN Append(shown, "connection_lost")
                                    ELSE shown
    /\ resetUIState
    /\ NoSend
    /\ UNCHANGED <<websocket, micPending, isAgentSpeaking, audioQueue,
                   isProcessingAudio, pendingAgentDone, playVars>>

\* A socket closes without an error: its close event alone.  A socket that
\* never opened has no normal closure.
WsClose(s, code) ==
    /\ Ran("ws_close")
    /\ sock[s] \in {"connecting", "open", "closing"}
    /\ sock[s] = "connecting" => code # "normal"
    /\ handleWebSocketClose(s, code, <<>>)

\* A connection fails: the browser fires error and then close, with a code
\* other than 1000, in one task: handleWebSocketError, handleWebSocketClose.
WsFail(s) ==
    /\ Ran("ws_fail")
    /\ sock[s] \in {"connecting", "open"}
    /\ handleWebSocketClose(s, "abnormal", <<"connection_error">>)

\* End button: end_session, disconnectWebSocket(), resetUIState().
EndBtnClick ==
    /\ Ran("end_click")
    /\ LET t == sendWebSocketMessage(Turn, "end_session") IN
          wire' = t.wire /\ calls' = t.calls /\ sent' = t.sent
    /\ toasts' = <<>>
    /\ sock' = IF websocket # 0 /\ sock[websocket] \in {"connecting", "open"}
               THEN [sock EXCEPT ![websocket] = "closing"]
               ELSE sock
    /\ websocket' = 0
    /\ isConnected' = FALSE
    /\ isConversationActive' = FALSE
    /\ resetUIState
    /\ UNCHANGED <<micPending, isAgentSpeaking, audioQueue,
                   isProcessingAudio, pendingAgentDone, playVars>>

\* sendChatMessage() with a non-empty text.
SendChat ==
    /\ Ran("send_chat")
    /\ SetTurn(sendWebSocketMessage(Turn, "text_input"))
    /\ UNCHANGED <<connVars, micVars, playVars>>

\* ---------------------------------------------------------- voice mode
\* Voice toggle button.
VoiceToggleClick ==
    /\ Ran("voice_toggle")
    /\ isConnected
    /\ IF isVoiceModeActive
       THEN /\ stopVoiceMode
            /\ toasts' = <<"voice_stopped">>
            /\ UNCHANGED micPending
       ELSE /\ micPending + liveStreams < MaxLive
            /\ micPending' = micPending + 1
            /\ toasts' = <<>>
            /\ UNCHANGED <<isVoiceModeActive, isListening, isRecording,
                           audioProcessor, liveProcs, mediaStream,
                           liveStreams>>
    /\ NoSend
    /\ UNCHANGED <<connVars, isAgentSpeaking, audioQueue, isProcessingAudio,
                   pendingAgentDone, playVars>>

\* getUserMedia resolves: startVoiceMode goes on to await initAudioContext().
MicGranted ==
    /\ Ran("mic_granted")
    /\ micPending > 0
    /\ micPending' = micPending - 1
    /\ mediaStream' = TRUE
    /\ liveStreams' = liveStreams + 1
    /\ ctxWaiters' = Append(ctxWaiters, Waiter("voice", 0, TRUE))
    /\ NoSend
    /\ toasts' = <<>>
    /\ UNCHANGED <<connVars, turnVars, audioProcessor, liveProcs,
                   isRecording, rendering, nextChunk>>

\* The catch of startVoiceMode logging the error without telling the user.
MicDenied_Silent ==
    /\ Ran("mic_denied")
    /\ micPending > 0
    /\ micPending' = micPending - 1
    /\ NoSend
    /\ toasts' = <<>>
    /\ UNCHANGED <<connVars, turnVars, playVars, mediaStream, audioProcessor,
                   liveStreams, liveProcs, isRecording>>

\* getUserMedia rejects: the catch of startVoiceMode.
MicDenied ==
    /\ Ran("mic_denied")
    /\ micPending > 0
    /\ micPending' = micPending - 1
    /\ NoSend
    /\ toasts' = <<"mic_error">>
    /\ UNCHANGED <<connVars, turnVars, playVars, mediaStream, audioProcessor,
                   liveStreams, liveProcs, isRecording>>

\* ----------------------------------------- resuming after the audio context
\* startVoiceMode activating voice mode with capture still off.
ResumeVoice_NotListening ==
    /\ Ran("resume_voice")
    /\ IF mediaStream
       THEN /\ audioProcessor' = TRUE
            /\ liveProcs' = liveProcs + 1
            /\ isVoiceModeActive' = TRUE
            /\ isListening' = FALSE
            /\ isRecording' = TRUE
            /\ toasts' = <<"voice_activated">>
       ELSE /\ toasts' = <<"mic_error">>
            /\ UNCHANGED <<audioProcessor, liveProcs, isVoiceModeActive,
                           isListening, isRecording>>
    /\ ctxWaiters' = Tail(ctxWaiters)
    /\ NoSend
    /\ UNCHANGED <<connVars, micPending, mediaStream, liveStreams,
                   isAgentSpeaking, audioQueue, isProcessingAudio,
                   pendingAgentDone, rendering, nextChunk>>

\* startVoiceMode after await initAudioContext(): createMediaStreamSource
\* throws on a stream that was released meanwhile.
ResumeVoice ==
    /\ Ran("resume_voice")
    /\ IF mediaStream
       THEN /\ audioProcessor' = TRUE
            /\ liveProcs' = liveProcs + 1
            /\ isVoiceModeActive' = TRUE
            /\ isListening' = TRUE
            /\ isRecording' = TRUE
            /\ toasts' = <<"voice_activated">>
       ELSE /\ toasts' = <<"mic_error">>
            /\ UNCHANGED <<audioProcessor, liveProcs, isVoiceModeActive,
                           isListening, isRecording>>
    /\ ctxWaiters' = Tail(ctxWaiters)
    /\ NoSend
    /\ UNCHANGED <<connVars, micPending, mediaStream, liveStreams,
                   isAgentSpeaking, audioQueue, isProcessingAudio,
                   pendingAgentDone, rendering, nextChunk>>

\* playAudio calling processAudioQueue() before the push: on an empty queue
\* the call returns at once and the buffer pushed after it has no loop.
ResumePlay_ProcessBeforePush(w) ==
    /\ Ran("resume_play")
    /\ IF ~w.ok
       THEN /\ ctxWaiters' = Tail(ctxWaiters)
            /\ UNCHANGED turnVars
       ELSE /\ audioQueue' = Append(audioQueue, w.chunk)
            /\ isProcessingAudio' = (isProcessingAudio \/ audioQueue # <<>>)
            /\ ctxWaiters' = IF isProcessingAudio \/ audioQueue = <<>>
                             THEN Tail(ctxWaiters)
                             ELSE Append(Tail(ctxWaiters),
                                         Waiter("loop", 0, TRUE))
            /\ UNCHANGED <<isVoiceModeActive, isListening, isAgentSpeaking,
                           pendingAgentDone>>
    /\ NoSend
    /\ toasts' = <<>>
    /\ UNCHANGED <<connVars, micVars, rendering, nextChunk>>

\* playAudio after await initAudioContext(): decode, push, and call
\* processAudioQueue(), which returns at once or sets isProcessingAudio and
\* awaits initAudioContext() itself.
ResumePlay(w) ==
    /\ Ran("resume_play")
    /\ IF ~w.ok
       THEN /\ ctxWaiters' = Tail(ctxWaiters)
            /\ UNCHANGED turnVars
       ELSE /\ audioQueue' = Append(audioQueue, w.chunk)
            /\ isProcessingAudio' = TRUE
            /\ ctxWaiters' = IF isProcessingAudio
                             THEN Tail(ctxWaiters)
                             ELSE Append(Tail(ctxWaiters),
                                         Waiter("loop", 0, TRUE))
            /\ UNCHANGED <<isVoiceModeActive, isListening, isAgentSpeaking,
                           pendingAgentDone>>
    /\ NoSend
    /\ toasts' = <<>>
    /\ UNCHANGED <<connVars, micVars, rendering, nextChunk>>

\* processAudioQueue after await initAudioContext(): enters the loop.
ResumeLoop ==
    /\ Ran("resume_loop")
    /\ ctxWaiters' = Tail(ctxWaiters)
    /\ LoopContinue({})
    /\ UNCHANGED <<connVars, micVars, nextChunk>>

CtxResume ==
    /\ ctxWaiters # <<>>
    /\ LET w == Head(ctxWaiters) IN
       CASE w.kind = "voice" -> ResumeVoice
         [] w.kind = "play"  -> ResumePlay(w)
         [] w.kind = "loop"  -> ResumeLoop

\* onended of a started source: its loop goes on.
SourceEnded(b) ==
    /\ Hist("source_ended")
    /\ orphaned' = orphaned \ {b}
    /\ UNCHANGED <<cutoff, guarded>>
    /\ b \in rendering
    /\ LoopContinue({b})
    /\ UNCHANGED <<connVars, micVars, ctxWaiters, nextChunk>>

\* ------------------------------------------------------------- capture
\* onaudioprocess that tests isVoiceModeActive only and forwards the frame
\* while listening is paused.
CaptureFrame_IgnoresListening ==
    /\ Ran("capture_frame")
    /\ liveProcs > 0
    /\ IF isVoiceModeActive
       THEN SetTurn(sendWebSocketMessage(Turn, "audio_input"))
       ELSE UNCHANGED turnVars /\ NoSend /\ toasts' = <<>>
    /\ UNCHANGED <<connVars, micVars, playVars>>

\* onaudioprocess that also waits for the session to be confirmed and drops
\* the frames captured before session_started.
CaptureFrame_NeedsConversation ==
    /\ Ran("capture_frame")
    /\ liveProcs > 0
    /\ IF isVoiceModeActive /\ isListening /\ isConversationActive
       THEN SetTurn(sendWebSocketMessage(Turn, "audio_input"))
       ELSE UNCHANGED turnVars /\ NoSend /\ toasts' = <<>>
    /\ UNCHANGED <<connVars, micVars, playVars>>

\* onaudioprocess of a connected processor.
CaptureFrame ==
    /\ Ran("capture_frame")
    /\ liveProcs > 0
    /\ IF isVoiceModeActive /\ isListening
       THEN SetTurn(sendWebSocketMessage(Turn, "audio_input"))
       ELSE UNCHANGED turnVars /\ NoSend /\ toasts' = <<>>
    /\ UNCHANGED <<connVars, micVars, playVars>>

\* ------------------------------------------------------------ interrupt
InterruptBtnClick ==
    /\ Hist("interrupt")
    /\ orphaned' = IF isVoiceModeActive /\ isAgentSpeaking
                   THEN orphaned \cup rendering
                   ELSE orphaned
    /\ UNCHANGED guarded
    /\ cutoff' = IF tracking /\ isVoiceModeActive /\ isAgentSpeaking
                 THEN nextChunk
                 ELSE cutoff
    /\ SetTurn(interruptClick(Turn))
    /\ UNCHANGED <<connVars, micVars, playVars>>

\* ------------------------------------------------------ inbound messages
AudioKinds == {"none", "bad", "ok"}

\* handleAudioOutput playing the audio whether or not voice mode is active.
MsgAudioOutput_AnyMode(kind) ==
    /\ Hist("audio_output")
    /\ UNCHANGED <<orphaned, cutoff, guarded>>
    /\ IF kind # "none"
       THEN /\ nextChunk < MaxChunks
            /\ nextChunk' = nextChunk + 1
            /\ SetTurn(handleAudioOutput(Turn))
            /\ ctxWaiters' = Append(ctxWaiters,
                                    Waiter("play", nextChunk + 1, kind = "ok"))
       ELSE UNCHANGED <<turnVars, nextChunk, ctxWaiters>> /\ NoSend
            /\ toasts' = <<>>
    /\ UNCHANGED <<connVars, micVars, rendering>>

MsgAudioOutput(kind) ==
    /\ Hist("audio_output")
    /\ UNCHANGED <<orphaned, cutoff>>
    /\ guarded' = IF /\ tracking
                     /\ kind # "none" /\ isVoiceModeActive
                     /\ IF isAgentSpeaking THEN fromListening ELSE isListening
                  THEN guarded \cup {nextChunk + 1}
                  ELSE guarded
    /\ IF kind # "none" /\ isVoiceModeActive
       THEN /\ nextChunk < MaxChunks
            /\ nextChunk' = nextChunk + 1
            /\ SetTurn(handleAudioOutput(Turn))
            /\ ctxWaiters' = Append(ctxWaiters,
                                    Waiter("play", nextChunk + 1, kind = "ok"))
       ELSE UNCHANGED <<turnVars, nextChunk, ctxWaiters>> /\ NoSend
            /\ toasts' = <<>>
    /\ UNCHANGED <<connVars, micVars, rendering>>

MsgAgentSpeaking ==
    /\ Ran("agent_speaking")
    /\ SetTurn(handleAgentSpeaking(Turn))
    /\ UNCHANGED <<connVars, micVars, playVars>>

MsgAgentDone ==
    /\ Ran("agent_done")
    /\ SetTurn(handleAgentDone(Turn))
    /\ UNCHANGED <<connVars, micVars, playVars>>

MsgPartialTranscript(role) ==
    /\ Ran("partial_transcript")
    /\ SetTurn(handlePartialTranscript(Turn, role))
    /\ UNCHANGED <<connVars, micVars, playVars>>

MsgUserTranscript ==
    /\ Ran("user_transcript")
    /\ SetTurn(handleUserTranscript(Turn))
    /\ UNCHANGED <<connVars, micVars, playVars>>

MsgSessionStarted ==
    /\ Ran("session_started")
    /\ isConversationActive' = TRUE
    /\ NoSend
    /\ toasts' = <<>>
    /\ UNCHANGED <<sock, websocket, isConnected, micVars, turnVars, playVars>>

MsgSessionEnded ==
    /\ Ran("session_ended")
    /\ isConversationActive' = FALSE
    /\ resetUIState
    /\ NoSend
    /\ toasts' = <<>>
    /\ UNCHANGED <<sock, websocket, isConnected, micPending, isAgentSpeaking,
                   audioQueue, isProcessingAudio, pendingAgentDone, playVars>>

\* A text JSON.parse throws on: the catch of handleWebSocketMessage.
MsgUnparseable ==
    /\ Ran("malformed")
    /\ NoSend
    /\ toasts' = <<>>
    /\ UNCHANGED <<connVars, micVars, turnVars, playVars>>

\* The tags whose handler reads its payload.
PayloadTags == {"session_started", "partial_transcript", "user_transcript",
                "audio_output"}

\* A message of a known tag without data: the handler runs up to its first
\* read of a field of data, which throws into the catch of
\* handleWebSocketMessage.  handleSessionStarted has set its flag by then;
\* the other three handlers read data first.
MsgMissingPayload(tag) ==
    /\ Ran("malformed")
    /\ isConversationActive' = IF tag = "session_started"
                               THEN TRUE
                               ELSE isConversationActive
    /\ NoSend
    /\ toasts' = <<>>
    /\ UNCHANGED <<sock, websocket, isConnected, micVars, turnVars, playVars>>

\* The tags whose handler only updates the page.
DisplayTags == {"transcript", "tool_call", "tool_result", "handoff",
                "context_update", "error"}

\* handleTranscript, handleToolCall, handleToolResult, handleHandoff,
\* handleContextUpdate, handleError: text and panels of the page, a toast for
\* a handoff and for an error, no variable of the turn.
MsgDisplay(tag) ==
    /\ Ran("display")
    /\ NoSend
    /\ toasts' = CASE tag = "handoff" -> <<"transferred">>
                  [] tag = "error" -> <<"server_error">>
                  [] OTHER -> <<>>
    /\ UNCHANGED <<connVars, micVars, turnVars, playVars>>

\* onmessage of an open socket, for the display tags.
WsDisplay(s) ==
    /\ sock[s] = "open"
    /\ \E tag \in DisplayTags : MsgDisplay(tag)

\* onmessage of an open socket: handleWebSocketMessage dispatches by tag.
WsMessage(s) ==
    /\ sock[s] = "open"
    /\ \/ \E kind \in AudioKinds : MsgAudioOutput(kind)
       \/ MsgAgentSpeaking
       \/ MsgAgentDone
       \/ \E role \in {"assistant", "user"} : MsgPartialTranscript(role)
       \/ MsgUserTranscript
       \/ MsgSessionStarted
       \/ MsgSessionEnded
       \/ MsgUnparseable
       \/ \E tag \in PayloadTags : MsgMissingPayload(tag)

\* Every task but the two clicks that open a session or request a microphone.
Tasks ==
    \/ \E s \in Sockets : WsOpen(s)
    \/ \E s \in Sockets, code \in CloseCodes : WsClose(s, code)
    \/ \E s \in Sockets : WsFail(s)
    \/ EndBtnClick
    \/ SendChat
    \/ MicGranted
    \/ MicDenied
    \/ CtxResume
    \/ \E b \in Chunks : SourceEnded(b)
    \/ CaptureFrame
    \/ InterruptBtnClick
    \/ \E s \in Sockets : WsMessage(s)

Next ==
    \/ StartBtnClick
    \/ VoiceToggleClick
    \/ Tasks
    \/ \E s \in Sockets : WsDisplay(s)

Spec == Init /\ [][Next]_vars

\* The turn-taking behaviours of one session with one microphone request at
\* a time: no second websocket is created, no second getUserMedia overlaps.
OneSession == \A s \in Sockets : s > 1 => sock[s] = "unused"

OneMicRequest == micPending + liveStreams <= 1

NextTurn ==
    \/ StartBtnClick /\ OneSession'
    \/ VoiceToggleClick /\ OneMicRequest'
    \/ Tasks

SpecTurn == Init /\ [][NextTurn]_vars

\* The behaviours of voice mode in one session: voice-toggle clicks overlap
\* freely with microphone acquisition, while at most one audio chunk is
\* played.
OneChunk == nextChunk <= 1

NextVoice ==
    \/ StartBtnClick /\ OneSession'
    \/ VoiceToggleClick
    \/ Tasks /\ OneChunk'

SpecVoice == Init /\ [][NextVoice]_vars

\* The behaviours of one session with one microphone request at a time and
\* at most one audio chunk, with the history of the first MaxWire calls of
\* sendWebSocketMessage.
NextWire ==
    \/ StartBtnClick /\ OneSession'
    \/ VoiceToggleClick /\ OneMicRequest'
    \/ Tasks /\ OneChunk'

SpecWire == InitWire /\ [][NextWire]_vars

\* The behaviours of SpecWire without the send history and with the display
\* messages: every tag of the dispatch table arrives.
NextMsg ==
    \/ StartBtnClick /\ OneSession'
    \/ VoiceToggleClick /\ OneMicRequest'
    \/ Tasks /\ OneChunk'
    \/ \E s \in Sockets : WsDisplay(s)

SpecMsg == Init /\ [][NextMsg]_vars

\* The behaviours of SpecWire with the interrupt and turn histories in place
\* of the send history.
SpecCut == InitCut /\ [][NextWire]_vars

\* The behaviours of successive sessions: any number of websockets up to
\* MaxSockets, one microphone request at a time, at most one audio chunk.
NextSession ==
    \/ StartBtnClick
    \/ VoiceToggleClick /\ OneMicRequest'
    \/ Tasks /\ OneChunk'

SpecSession == Init /\ [][NextSession]_vars

\* ---------------------------------------------------------------- codec
FullScale == 32768
Int16Max  == 32767
Int16Min  == -FullScale
Int16     == Int16Min..Int16Max

\* The native samples of the model: every multiple of 1/(32768 * NativeSteps)
\* of magnitude up to MaxNative, inside and outside [-1, 1).
NativeSamples ==
    (-(MaxNative * FullScale * NativeSteps))..(MaxNative * FullScale * NativeSteps)

\* The store into an Int16Array element: truncation towards zero, then the
\* value modulo 2^16 read as a signed 16-bit integer.
Truncate(num, den) ==
    IF num >= 0 THEN num \div den ELSE -((-num) \div den)

ToInt16(n) == ((n + FullScale) % (2 * FullScale)) - FullScale

\* playAudio: float32[i] = pcm16[i] / 32768.0, exact in a Float32Array; the
\* native sample v / 32768 is held as the integer v * NativeSteps.
decodeSample(v) == v * NativeSteps

\* onaudioprocess without the clamp: pcm16[i] = inputData[i] * 32768.
encodeSample_NoClamp(x) == ToInt16(Truncate(x, NativeSteps))

\* onaudioprocess:
\* pcm16[i] = Math.max(-32768, Math.min(32767, inputData[i] * 32768)),
\* where x * 32768 is the rational x / NativeSteps of the held integer.
encodeSample(x) ==
    LET hi == Int16Max * NativeSteps
        lo == Int16Min * NativeSteps
        least == IF x < hi THEN x ELSE hi
        most == IF least > lo THEN least ELSE lo
    IN  ToInt16(Truncate(most, NativeSteps))

\* Everything but the codec's sample.
appVars == <<connVars, micVars, turnVars, playVars, wire, toasts, task,
             orphaned, agentDone, logging, calls, sent, tracking, cutoff,
             fromListening, guarded>>

\* A sample arrives from the wire, or the microphone delivers one.
InitCodec ==
    /\ Constructed /\ logging = FALSE /\ tracking = FALSE
    /\ encoded = 0
    /\ \/ stage = "wire" /\ pcm16 \in Int16 /\ float32 = 0
       \/ stage = "native" /\ pcm16 = 0 /\ float32 \in NativeSamples

\* The conversion loop of playAudio on one sample.
DecodeSample ==
    /\ stage = "wire"
    /\ float32' = decodeSample(pcm16)
    /\ stage' = "decoded"
    /\ UNCHANGED <<pcm16, encoded, appVars>>

\* The conversion loop of onaudioprocess on one sample: a microphone sample,
\* or a decoded one encoded again.
EncodeSample ==
    /\ stage \in {"native", "decoded"}
    /\ encoded' = encodeSample(float32)
    /\ stage' = IF stage = "decoded" THEN "round_trip" ELSE "encoded"
    /\ UNCHANGED <<pcm16, float32, appVars>>

NextCodec ==
    \/ DecodeSample
    \/ EncodeSample

SpecCodec == InitCodec /\ [][NextCodec]_vars

TypeOK ==
    /\ sock \in [Sockets -> {"unused", "connecting", "open", "closing",
                              "closed", "lost"}]
    /\ websocket \in 0..MaxSockets
    /\ {isConnected, isConversationActive, isRecording, isVoiceModeActive,
        isListening, isAgentSpeaking, isProcessingAudio, pendingAgentDone,
        mediaStream, audioProcessor} \subseteq BOOLEAN
    /\ audioQueue \in Seq(Chunks)
    /\ rendering \subseteq Chunks
    /\ nextChunk \in 0..MaxChunks
    /\ Len(wire) <= 1
    /\ Len(toasts) <= 2
    /\ agentDone \in BOOLEAN
    /\ logging \in BOOLEAN
    /\ Len(calls) <= MaxWire
    /\ Len(sent) <= Len(calls)
    /\ tracking \in BOOLEAN
    /\ cutoff \in 0..nextChunk
    /\ stage \in {"idle", "wire", "native", "decoded", "encoded", "round_trip"}
    /\ pcm16 \in Int16 /\ encoded \in Int16
    /\ float32 \in NativeSamples
    /\ fromListening \in BOOLEAN
    /\ guarded \subseteq 1..nextChunk
    /\ orphaned \subseteq rendering

\* =================================================================
\* Properties
\* =================================================================
TurnState ==
    IF isAgentSpeaking THEN "AGENT_SPEAKING"
    ELSE IF isVoiceModeActive THEN "LISTENING"
    ELSE "IDLE"

CaptureEnabled == isVoiceModeActive /\ isListening

\* C1: at most one audio buffer is rendering at any time.
C1_AtMostOneRendering == Cardinality(rendering) <= 1

\* C2: capture is enabled exactly when the turn state is LISTENING, and
\* isListening and isAgentSpeaking are never both true.
C2_CaptureIffListening ==
    /\ CaptureEnabled <=> TurnState = "LISTENING"
    /\ ~(isListening /\ isAgentSpeaking)

\* C3: capture is never enabled while an agent audio buffer is rendering
\* or waiting in the playback queue.
C3_HalfDuplex ==
    ~(isListening /\ (rendering # {} \/ audioQueue # <<>>))

\* C4: an agent_done received while buffers are queued or rendering leaves
\* capture off, the speaking flag as it was and pendingAgentDone set; while
\* the hand-over is pending, capture is turned on (other than by an
\* interrupt) only by the completion of the last buffer, which leaves
\* nothing queued or rendering and pendingAgentDone false.
C4_PendingHandover ==
    [][ /\ (task' = "agent_done" /\ (audioQueue # <<>> \/ rendering # {}))
            => /\ isListening' => isListening
               /\ isAgentSpeaking => isAgentSpeaking'
               /\ pendingAgentDone'
        /\ (pendingAgentDone /\ ~isListening /\ isListening'
                /\ task' # "interrupt")
            => /\ task' = "source_ended"
               /\ audioQueue' = <<>>
               /\ rendering' = {}
               /\ ~pendingAgentDone'
      ]_vars

\* C5: an agent_done received in voice mode with the queue empty and
\* nothing rendering clears isAgentSpeaking and enables capture in the same
\* task, and pendingAgentDone is false afterwards.
C5_ImmediateResume ==
    [][ (task' = "agent_done" /\ isVoiceModeActive
            /\ audioQueue = <<>> /\ rendering = {})
        => (~isAgentSpeaking' /\ isListening' /\ isVoiceModeActive'
            /\ ~pendingAgentDone')
      ]_vars

\* C5 witness: agent audio was received, none of it is left queued, rendering
\* or being decoded, and the agent_done task that ran last has handed the
\* turn back.
C5_Witness ==
    /\ task = "agent_done"
    /\ nextChunk >= 1
    /\ audioQueue = <<>> /\ rendering = {} /\ ctxWaiters = <<>>
    /\ isVoiceModeActive /\ isListening /\ ~isAgentSpeaking
    /\ ~pendingAgentDone

\* C6: an interrupt issued while voice mode is active leaves the queue
\* empty, capture enabled and the turn state LISTENING.
C6_InterruptYieldsListening ==
    [][ (task' = "interrupt" /\ isVoiceModeActive)
        => (audioQueue' = <<>> /\ isListening' /\ isVoiceModeActive'
            /\ ~isAgentSpeaking')
      ]_vars

\* C7: an interrupt that directly follows an interrupt, or is issued while
\* already LISTENING, changes no state and writes nothing to the socket.
C7_InterruptIdempotent ==
    [][ (task' = "interrupt"
            /\ (task = "interrupt" \/ TurnState = "LISTENING"))
        => (wire' = <<>>
            /\ UNCHANGED <<turnVars, playVars, connVars, micVars, orphaned>>)
      ]_vars

\* C7 witness: an effective interrupt has just run (it wrote its message and
\* cleared a queue with a source in flight), so a second one can follow it.
C7_Witness ==
    /\ task = "interrupt"
    /\ wire = <<"interrupt">>
    /\ orphaned # {}
    /\ isListening /\ ~isAgentSpeaking

\* C8: an interrupt in AGENT_SPEAKING on an open connection empties the
\* queue, clears pendingAgentDone and isAgentSpeaking, enables capture and
\* writes exactly one interrupt message.
C8_InterruptWhileSpeaking ==
    [][ (task' = "interrupt" /\ isVoiceModeActive /\ isAgentSpeaking
            /\ SocketOpen)
        => (audioQueue' = <<>> /\ ~pendingAgentDone' /\ ~isAgentSpeaking'
            /\ isListening' /\ isVoiceModeActive'
            /\ wire' = <<"interrupt">>)
      ]_vars

\* C8 witness: the interrupt ran last with chunk 1 in flight and chunks 2
\* and 3 decoded behind it; the queue is now empty and capture is on.
C8_Witness ==
    /\ task = "interrupt"
    /\ wire = <<"interrupt">>
    /\ nextChunk = 3 /\ orphaned = {1} /\ rendering = {1}
    /\ ctxWaiters = <<>>
    /\ audioQueue = <<>>
    /\ isListening /\ ~isAgentSpeaking /\ ~pendingAgentDone

\* C9: right after the queue is cleared no agent audio buffer is rendering.
C9_ClearStopsRendering ==
    [][ (task' = "interrupt" /\ isVoiceModeActive /\ isAgentSpeaking)
        => rendering' = {}
      ]_vars

\* C10: the completion of a source that was in flight when the queue was
\* cleared leaves the processing flag, the queue and the hand-over flags
\* of later audio alone.
C10_OrphanCompletionInert ==
    [][ \A b \in orphaned :
            (task' = "source_ended" /\ b \notin rendering')
            => UNCHANGED <<audioQueue, isProcessingAudio, pendingAgentDone,
                           isAgentSpeaking, isListening>>
      ]_vars

\* Chunks handed to playAudio and not yet decoded, and chunks in the queue.
Decoding ==
    {ctxWaiters[i].chunk :
        i \in {j \in 1..Len(ctxWaiters) : ctxWaiters[j].kind = "play"}}

Queued == {audioQueue[i] : i \in 1..Len(audioQueue)}

\* C11: buffers begin rendering in the order their audio_output messages
\* arrived: when a buffer starts, every chunk still being decoded or waiting
\* in the queue arrived after it, so no earlier chunk can start later.
C11_RenderInArrivalOrder ==
    [][ \A b \in rendering' \ rendering :
            \A c \in Queued' \cup Decoding' : c > b
      ]_vars

\* C11 witness: chunk 2 was started by the completion of chunk 1 while
\* chunk 3 waits in the queue behind it.
C11_Witness ==
    /\ task = "source_ended"
    /\ rendering = {2}
    /\ audioQueue = <<3>>

\* No playback is under way: nothing queued, rendering or being decoded,
\* and no processAudioQueue loop about to start.
PlaybackIdle ==
    /\ audioQueue = <<>>
    /\ rendering = {}
    /\ ctxWaiters = <<>>
    /\ ~isProcessingAudio

\* C12: the hand-over is never stuck: in voice mode, when the agent's turn
\* has been declared done and the last enqueued buffer has just completed
\* with no playback left, the client does not rest in AGENT_SPEAKING with
\* capture off and no hand-over pending.
C12_NoStuckHandover ==
    ~ ( /\ task = "source_ended"
        /\ agentDone
        /\ isVoiceModeActive
        /\ PlaybackIdle
        /\ isAgentSpeaking /\ ~isListening /\ ~pendingAgentDone )

\* C13: starting voice mode enables capture exactly once and causes no
\* playback activity: no step of startVoiceMode touches the queue, the
\* processing flag or the rendering sources; capture stays off until the
\* last step, which turns it on with one microphone stream and one capture
\* processor live.
C13_VoiceStartFromIdle ==
    [][ /\ (task' \in {"mic_granted", "resume_voice"}
                \/ (task' = "voice_toggle" /\ ~isVoiceModeActive))
            => UNCHANGED <<audioQueue, isProcessingAudio, rendering,
                           pendingAgentDone>>
        /\ (task' = "mic_granted"
                \/ (task' = "voice_toggle" /\ ~isVoiceModeActive))
            => (~isListening' /\ ~isVoiceModeActive' /\ liveProcs' = 0)
        /\ (task' = "resume_voice" /\ mediaStream)
            => (~isListening /\ isListening' /\ isVoiceModeActive'
                /\ liveStreams' = 1 /\ liveProcs' = 1)
      ]_vars

\* C13 witness: voice mode has just been started from IDLE.
C13_Witness ==
    /\ task = "resume_voice"
    /\ TurnState = "LISTENING"
    /\ isListening
    /\ liveStreams = 1 /\ liveProcs = 1
    /\ PlaybackIdle

\* C14: at most one microphone stream and one capture processor are live
\* at a time, whatever the overlap of voice-toggle clicks with microphone
\* acquisition, and right after voice mode is stopped no stream is held.
C14_SingleMicOwner ==
    /\ liveStreams <= 1
    /\ liveProcs <= 1
    /\ (task = "voice_toggle" /\ toasts = <<"voice_stopped">>)
           => liveStreams = 0

\* C15: a malformed inbound message (unparseable text, or a known tag whose
\* payload is missing) is dropped: the turn flags, the playback queue,
\* capture and the microphone, the session flags and the connection are
\* the same after its handler as before.
C15_MalformedDropped ==
    [][ task' = "malformed"
        => UNCHANGED <<turnVars, playVars, micVars, connVars>>
      ]_vars

\* C16: an audio_output whose payload cannot be decoded does not affect the
\* turn: neither its handler nor the decode step of its playAudio changes
\* isAgentSpeaking, isListening, pendingAgentDone or the playback queue.
C16_UndecodableRejected ==
    [][ \/ /\ task' = "audio_output"
            /\ Len(ctxWaiters') > Len(ctxWaiters)
            /\ ~ctxWaiters'[Len(ctxWaiters')].ok
         \/ /\ task' = "resume_play"
            /\ ~Head(ctxWaiters).ok
        => UNCHANGED <<isAgentSpeaking, isListening, pendingAgentDone,
                       audioQueue>>
      ]_vars

\* C17: when microphone acquisition fails, voice mode does not become
\* active and capture does not start (isVoiceModeActive and isListening
\* stay false, no stream or processor is created, nothing of the start is
\* left to run), the user is told, and the session is unaffected (socket,
\* isConnected and isConversationActive unchanged).
C17_MicFailure ==
    [][ task' = "mic_denied"
        => /\ ~isVoiceModeActive' /\ ~isListening'
           /\ UNCHANGED <<isVoiceModeActive, isListening, isRecording,
                          liveStreams, liveProcs, ctxWaiters>>
           /\ toasts' = <<"mic_error">>
           /\ UNCHANGED connVars
      ]_vars

\* C17 witness: the microphone was refused in an open session, which is
\* still open and connected, with voice mode off.
C17_Witness ==
    /\ task = "mic_denied"
    /\ toasts = <<"mic_error">>
    /\ SocketOpen /\ isConnected
    /\ ~isVoiceModeActive /\ ~isListening
    /\ micPending = 0 /\ liveStreams = 0

\* C18: after a transport closure has been handled the turn state is safe:
\* capture is off (isVoiceModeActive and isListening false) and playback is
\* cleared (queue empty, nothing rendering, pendingAgentDone and
\* isAgentSpeaking false).
C18_CloseResetsTurn ==
    [][ task' \in {"ws_close", "ws_fail"}
        => /\ ~isVoiceModeActive' /\ ~isListening'
           /\ audioQueue' = <<>> /\ rendering' = {}
           /\ ~pendingAgentDone' /\ ~isAgentSpeaking'
      ]_vars

\* The notifications of a transport failure among those of a task.
FailureToasts(shown) ==
    SelectSeq(shown, LAMBDA m : m \in {"connection_error", "connection_lost"})

\* C19: a transport failure is surfaced exactly once (the error event with
\* its close event yields one notification), and a closure with the normal
\* code surfaces none.
C19_FailureSurfacedOnce ==
    [][ \A s \in Sockets :
          /\ (sock'[s] = "lost" /\ sock[s] # "lost")
                => Len(FailureToasts(toasts')) = 1
          /\ (sock'[s] = "closed" /\ sock[s] # "closed")
                => Len(FailureToasts(toasts')) = 0
      ]_vars

\* The tags of the calls of sendWebSocketMessage made on an open socket.
AcceptedCalls ==
    LET a == SelectSeq(calls, LAMBDA c : c.open)
    IN  [i \in 1..Len(a) |-> a[i].type]

\* C20: outbound messages are on the wire in the order of the calls of
\* sendWebSocketMessage: what the socket was given is the sequence of the
\* calls made while it was open, whatever the interleaving of capture
\* callbacks, interrupt clicks, text sends and the end of the session.
C20_WireOrder == sent = AcceptedCalls

\* C20 witness: a capture frame and then an interrupt were sent, in this
\* order, the interrupt by the task that ran last.
C20_Witness ==
    /\ task = "interrupt"
    /\ wire = <<"interrupt">>
    /\ sent = <<"audio_input", "interrupt">>
    /\ Len(calls) = 2

\* The calls of sendWebSocketMessage the connection has to carry: those made
\* while the socket was open or still connecting.
RequestedCalls == SelectSeq(calls, LAMBDA c : c.open \/ c.connecting)

\* C21: a send requested before the connection has opened is transmitted
\* once it opens: when the socket is open, every message requested while it
\* was open or connecting has been given to it.
C21_SendWaitsForOpen ==
    SocketOpen => Len(sent) = Len(RequestedCalls)

Sends(type) == {i \in 1..Len(wire) : wire[i] = type}

\* C22: a frame produced while capture is disabled is discarded and never
\* buffered: its callback sends nothing and changes nothing, and no other
\* task ever sends an audio_input: each audio_input on the wire is the one
\* frame of a callback that ran with capture enabled.
C22_DisabledFrameDiscarded ==
    [][ /\ (task' = "capture_frame" /\ ~CaptureEnabled)
           => /\ wire' = <<>>
              /\ UNCHANGED <<connVars, micVars, turnVars, playVars>>
        /\ Sends("audio_input")' # {}
           => /\ task' = "capture_frame"
              /\ CaptureEnabled
              /\ wire' = <<"audio_input">> ]_vars

C22_Witness ==
    /\ task = "capture_frame"
    /\ isVoiceModeActive /\ ~isListening
    /\ SocketOpen
    /\ wire = <<>>

PassThroughTasks == {"display", "partial_transcript", "user_transcript"}

\* C23: a pass-through message (transcript, partial_transcript,
\* user_transcript, tool_call, tool_result, handoff, context_update, error)
\* leaves the turn state as it was: isListening, isAgentSpeaking,
\* pendingAgentDone and the playback queue are unchanged by its handler.
C23_PassThroughKeepsTurn ==
    [][ task' \in PassThroughTasks
        => UNCHANGED <<isListening, isAgentSpeaking, pendingAgentDone,
                       audioQueue>> ]_vars

\* C24: stopping voice mode while agent audio is queued or rendering is an
\* interrupt: afterwards the queue is empty, nothing is rendering,
\* pendingAgentDone is cleared, capture is disabled, the microphone is
\* released and the turn state is IDLE.
C24_VoiceStopInterrupts ==
    [][ ( /\ task' = "voice_toggle"
          /\ isVoiceModeActive
          /\ (audioQueue # <<>> \/ rendering # {}) )
        => /\ audioQueue' = <<>>
           /\ rendering' = {}
           /\ ~pendingAgentDone'
           /\ ~CaptureEnabled'
           /\ liveStreams' = 0 /\ liveProcs' = 0
           /\ TurnState' = "IDLE" ]_vars

\* The decodable chunks still inside playAudio.
Decodable ==
    {ctxWaiters[i].chunk :
        i \in {j \in 1..Len(ctxWaiters) :
                  ctxWaiters[j].kind = "play" /\ ctxWaiters[j].ok}}

\* The received agent audio that has not finished rendering: decodable
\* chunks still in playAudio, queued buffers, and started sources that no
\* interrupt has discarded.
Outstanding ==
    Decodable
    \cup Queued
    \cup (rendering \ orphaned)

HandoverTasks == {"agent_done", "source_ended", "resume_loop"}

\* C25: agent_done never hands the turn over while received agent audio is
\* outstanding: when handleAgentDone, or the end of the playback loop it
\* deferred to, re-enables capture, no accepted chunk is still in playAudio,
\* in the queue or rendering.
C25_NoPrematureHandover ==
    [][ (task' \in HandoverTasks /\ ~isListening /\ isListening')
        => Outstanding' = {} ]_vars

\* C26: no chunk received before an interrupt begins rendering after that
\* interrupt has been processed, not even one that was inside playAudio when
\* the interrupt was clicked: every source that starts was received after
\* the last interrupt.
C26_NoRenderAfterInterrupt ==
    [][ \A b \in rendering' \ rendering : b > cutoff ]_vars

OpensAgentTurn ==
    /\ task' \in {"agent_speaking", "audio_output"}
    /\ nextChunk' # nextChunk \/ task' = "agent_speaking"
    /\ TurnState = "LISTENING" /\ CaptureEnabled

\* C27: in voice mode while LISTENING, an agent_speaking signal or a first
\* audio_output chunk disables capture in its own handler step, before the
\* chunk is enqueued, and no audio_input frame is sent from then until the
\* agent's playback has ended: no frame is sent while a chunk of a turn
\* opened that way, and not discarded by an interrupt since, is outstanding.
C27_NoCaptureDuringAgentTurn ==
    [][ /\ OpensAgentTurn
           => ~isListening' /\ wire' = <<>> /\ audioQueue' = audioQueue
        /\ Sends("audio_input")' # {}
           => {b \in Outstanding \cap guarded : b > cutoff} = {} ]_vars

\* A loop of processAudioQueue is alive: about to enter its while, or waiting
\* for the onended of the source it started.
LoopAlive ==
    \/ rendering # {}
    \/ \E i \in 1..Len(ctxWaiters) : ctxWaiters[i].kind = "loop"

\* C28: no dropped audio: every decodable chunk accepted in voice mode is
\* rendered exactly once unless an interrupt clears it from the queue first.
\* A chunk enters playAudio once, leaves it only into the queue, leaves the
\* queue only from its head into rendering or by an interrupt, never comes
\* back, and a non-empty queue always has a playback loop alive to take it
\* (checked at every step that touches the playback state).
C28_RenderedExactlyOnce ==
    [][ \/ UNCHANGED <<audioQueue, ctxWaiters, rendering>>
        \/ /\ \A b \in Decoding' \ Decoding :
                 b = nextChunk + 1 /\ nextChunk' = b
           /\ \A b \in Decodable \ Decoding' : b \in Queued'
           /\ \A b \in Queued' \ Queued :
                 b \in Decodable /\ b \notin Decoding'
           /\ \A b \in Queued \ Queued' :
                 b \notin rendering' => task' = "interrupt"
           /\ \A b \in rendering' \ rendering :
                 /\ audioQueue # <<>> /\ b = Head(audioQueue)
                 /\ b \notin Queued' \cup Decoding'
           /\ Cardinality(Queued') = Len(audioQueue')
           /\ audioQueue' # <<>> => LoopAlive' ]_vars

C28_Witness ==
    /\ task = "source_ended"
    /\ rendering = {2}
    /\ audioQueue = <<3>>
    /\ orphaned = {}
    /\ isVoiceModeActive

\* C29: while capture is enabled and the connection is open, every frame of
\* the capture callback is forwarded as exactly one audio_input message
\* within the callback itself: the task sends it and leaves nothing pending,
\* no other variable changes.
C29_EnabledFrameForwarded ==
    [][ (task' = "capture_frame" /\ CaptureEnabled /\ SocketOpen)
        => /\ wire' = <<"audio_input">>
           /\ UNCHANGED <<connVars, micVars, turnVars, playVars>> ]_vars

C29_Witness ==
    /\ task = "capture_frame"
    /\ CaptureEnabled /\ SocketOpen
    /\ ~isConversationActive
    /\ wire = <<"audio_input">>

\* C30: events of a closed or discarded session never alter a later one: a
\* close event of a websocket that has already been replaced by a new, open
\* connection leaves isConnected, isConversationActive and the voice-mode
\* state of the new session as they were.
C30_StaleCloseIgnored ==
    [][ \A s \in Sockets :
          ( /\ task' \in {"ws_close", "ws_fail"}
            /\ sock'[s] # sock[s]
            /\ websocket \notin {0, s}
            /\ sock[websocket] = "open" )
          => UNCHANGED <<isConnected, isConversationActive,
                         isVoiceModeActive, isListening, micVars>> ]_vars

\* C31: voice mode is active only while the session is connected, also when
\* the connection closes while startVoiceMode is waiting for the microphone.
C31_VoiceOnlyWhileConnected == isVoiceModeActive => isConnected

\* C32: an audio_output message received while voice mode is not active is
\* neither enqueued nor rendered and changes no turn flag: the queue,
\* isProcessingAudio, isAgentSpeaking, isListening and pendingAgentDone stay
\* as they were, and no playAudio call or source is started.
C32_AudioIgnoredOutsideVoice ==
    [][ (task' = "audio_output" /\ ~isVoiceModeActive)
        => UNCHANGED <<audioQueue, isProcessingAudio, isAgentSpeaking,
                       isListening, pendingAgentDone, ctxWaiters, rendering,
                       nextChunk>> ]_vars

C32_Witness ==
    /\ task = "audio_output"
    /\ ~isVoiceModeActive
    /\ SocketOpen
    /\ audioQueue # <<>> /\ rendering # {}

\* C33: isListening implies isVoiceModeActive in every reachable state:
\* capture is never marked enabled while voice mode is off, whatever start,
\* stop, pause, resume, interrupt, agent_done and connection-reset events
\* occurred.
C33_ListeningOnlyInVoiceMode == isListening => isVoiceModeActive

C33_Witness ==
    /\ task = "source_ended"
    /\ agentDone
    /\ isListening /\ isVoiceModeActive
    /\ rendering = {} /\ audioQueue = <<>>

\* C34: at every handler boundary pendingAgentDone is true only if the
\* playback queue is non-empty or isProcessingAudio is true: the pending
\* hand-over never outlives the audio it waits for.
C34_PendingHasAudio ==
    pendingAgentDone => (audioQueue # <<>> \/ isProcessingAudio)

C34_Witness ==
    /\ task = "agent_done"
    /\ pendingAgentDone
    /\ audioQueue = <<>> /\ isProcessingAudio
    /\ rendering # {}

\* C35: the codec round-trips on the wire format: every 16-bit sample
\* decoded to a native sample (value / 32768) and encoded again (scale by
\* 32768, clamp to [-32768, 32767], truncate) is the same 16-bit value, and
\* a native sample outside [-1, 1) encodes to the clamped extreme, 32767
\* above and -32768 below, instead of wrapping.
C35_CodecRoundTrip ==
    /\ stage = "round_trip" => encoded = pcm16
    /\ stage = "encoded"
       => /\ encoded \in Int16
          /\ float32 >= FullScale * NativeSteps => encoded = Int16Max
          /\ float32 < -(FullScale * NativeSteps) => encoded = Int16Min

C35_Witness ==
    /\ stage = "round_trip"
    /\ pcm16 = Int16Min
    /\ float32 = -(FullScale * NativeSteps)
    /\ encoded = Int16Min

====
